---- MODULE Spec2Model ----
(***************************************************************************)
(* A model of griptape's ToolSubtask (src/griptape/tasks/tool_subtask.py): *)
(* the initializer run by attach (regex extraction, literal parsing,       *)
(* validation, tool resolution, error recovery), run, and the parent/child *)
(* links kept by add_child / add_parent.                                   *)
(*                                                                         *)
(* Python values are records [t, v]: t is the Python type and v the text   *)
(* of the value as a sequence of pieces (the lines of an Output: capture,  *)
(* the parts of a formatted message), so that all values have one shape.   *)
(***************************************************************************)
EXTENDS Integers, Sequences, FiniteSets, TLC

\* ------------------------------------------------------------ Python values

None == [t |-> "NoneType", v |-> << >>]

Str(lines) == [t |-> "str", v |-> lines]

Str1(s) == Str(<<s>>)

\* bool(x) of a value held by a field: None and "" are false.
Truthy(x) == x.t # "NoneType" /\ ~(x.t = "str" /\ x.v = <<"">>)

\* ------------------------------------------------------------ input text

\* The lines an input text is made of.  No line is blank or starts with
\* white space, so the only place where \s* crosses a line end is after a
\* bare "Thought:".
ThoughtLines == {"Thought: I should check.", "Thought: use the calculator", "Thought:"}

MatchingActionLines ==
    { "Action: {'type': 'tool', 'name': 'calc', 'method': 'add', 'input': '2,3'}",
      "Action: {'type': 'tool', 'name': 'calc', 'method': 'add', 'input': 'two'}",
      "Action: {'type': 'tool', 'name': 'calc', 'method': 'ping'}",
      "Action: {'type': 'tool', 'name': 'nosuch', 'method': 'add', 'input': 'two'}",
      "Action: {'type': 'tool', 'name': 'error', 'method': 'add', 'input': '2,3'}",
      "Action: {'type': 'tool', 'name': 'calc'}",
      "Action: {'type': 'plugin', 'name': 'calc', 'method': 'add', 'input': '2,3'}",
      "Action: {'type': 'tool', 'name': 'calc', 'method': 'ping', 'input': ['2', '3']}",
      "Action: {'type': 'tool', 'name': 'calc', 'method': 'ping', 'input': ''}",
      "Action: {not a json}",
      "Action: {not-json}",
      "Action: {1, 2}" }

\* Lines that begin with Action: and carry no {...}: ACTION_PATTERN skips them.
BareActionLines == {"Action: not-json"}

OutputLines == {"Output: final answer is 42", "Output: done"}

OtherLines == {"Let me think."}

Lines == ThoughtLines \cup MatchingActionLines \cup BareActionLines
            \cup OutputLines \cup OtherLines

\* The longest input text, in lines.
MaxLines == 2

Texts == UNION { [1..n -> Lines] : n \in 0..MaxLines }

\* Group 1 of THOUGHT_PATTERN on a Thought: line, to the end of that line.
ThoughtGroup(l) ==
    CASE l = "Thought: I should check."    -> "I should check."
      [] l = "Thought: use the calculator" -> "use the calculator"
      [] l = "Thought:"                    -> ""

\* Group 1 of ACTION_PATTERN on a matching line: the {...} literal.
ActionGroup(l) ==
    CASE l = "Action: {'type': 'tool', 'name': 'calc', 'method': 'add', 'input': '2,3'}"
                -> "{'type': 'tool', 'name': 'calc', 'method': 'add', 'input': '2,3'}"
      [] l = "Action: {'type': 'tool', 'name': 'calc', 'method': 'add', 'input': 'two'}"
                -> "{'type': 'tool', 'name': 'calc', 'method': 'add', 'input': 'two'}"
      [] l = "Action: {'type': 'tool', 'name': 'calc', 'method': 'ping'}"
                -> "{'type': 'tool', 'name': 'calc', 'method': 'ping'}"
      [] l = "Action: {'type': 'tool', 'name': 'nosuch', 'method': 'add', 'input': 'two'}"
                -> "{'type': 'tool', 'name': 'nosuch', 'method': 'add', 'input': 'two'}"
      [] l = "Action: {'type': 'tool', 'name': 'error', 'method': 'add', 'input': '2,3'}"
                -> "{'type': 'tool', 'name': 'error', 'method': 'add', 'input': '2,3'}"
      [] l = "Action: {'type': 'tool', 'name': 'calc'}"
                -> "{'type': 'tool', 'name': 'calc'}"
      [] l = "Action: {'type': 'plugin', 'name': 'calc', 'method': 'add', 'input': '2,3'}"
                -> "{'type': 'plugin', 'name': 'calc', 'method': 'add', 'input': '2,3'}"
      [] l = "Action: {'type': 'tool', 'name': 'calc', 'method': 'ping', 'input': ['2', '3']}"
                -> "{'type': 'tool', 'name': 'calc', 'method': 'ping', 'input': ['2', '3']}"
      [] l = "Action: {'type': 'tool', 'name': 'calc', 'method': 'ping', 'input': ''}"
                -> "{'type': 'tool', 'name': 'calc', 'method': 'ping', 'input': ''}"
      [] l = "Action: {not a json}" -> "{not a json}"
      [] l = "Action: {not-json}" -> "{not-json}"
      [] l = "Action: {1, 2}"     -> "{1, 2}"

\* What follows "Output: " on an Output: line.
OutputGroup(l) ==
    CASE l = "Output: final answer is 42" -> "final answer is 42"
      [] l = "Output: done"               -> "done"

\* re.findall(THOUGHT_PATTERN, value, re.MULTILINE) from line i on.  After a
\* bare "Thought:" the \s* takes the line end and (.*) the whole next line,
\* which is then part of this match and not scanned again.
RECURSIVE ThoughtScan(_, _)
ThoughtScan(value, i) ==
    IF i > Len(value) THEN << >>
    ELSE IF value[i] \in ThoughtLines
         THEN IF ThoughtGroup(value[i]) = "" /\ i < Len(value)
              THEN <<value[i + 1]>> \o ThoughtScan(value, i + 2)
              ELSE <<ThoughtGroup(value[i])>> \o ThoughtScan(value, i + 1)
         ELSE ThoughtScan(value, i + 1)

thought_matches(value) == ThoughtScan(value, 1)

\* re.findall(ACTION_PATTERN, value, re.MULTILINE) from line i on.
RECURSIVE ActionScan(_, _)
ActionScan(value, i) ==
    IF i > Len(value) THEN << >>
    ELSE IF value[i] \in MatchingActionLines
         THEN <<ActionGroup(value[i])>> \o ActionScan(value, i + 1)
         ELSE ActionScan(value, i + 1)

action_matches(value) == ActionScan(value, 1)

\* re.findall(OUTPUT_PATTERN, value, re.MULTILINE): [\s\S]* runs from the
\* first Output: line to the end of the text, so there is at most one match,
\* and it holds every line after that one.  A match is a sequence of lines.
output_matches(value) ==
    LET at == {i \in 1..Len(value) : value[i] \in OutputLines}
    IN  IF at = {} THEN << >>
        ELSE LET i == CHOOSE k \in at : \A j \in at : k <= j
             IN  << <<OutputGroup(value[i])>> \o SubSeq(value, i + 1, Len(value)) >>

Last(seq) == seq[Len(seq)]

\* ------------------------------------------------------------ artifacts

NoOutput == [kind |-> "NoneType", value |-> None, exception |-> "", task |-> ""]

TextOutput(value) ==
    [kind |-> "TextOutput", value |-> value, exception |-> "", task |-> ""]

ErrorOutput(value, exception, task) ==
    [kind |-> "ErrorOutput", value |-> value, exception |-> exception, task |-> task]

\* ------------------------------------------------------------ collaborators

\* The id of the owning ToolkitTask, which structure.find_task resolves.
TaskId == "task"

\* The tool names the owning task may have registered.
Registries == {{"calc"}, {"calc", "error"}}

NoTool == [t |-> "NoneType", v |-> << >>]

Tool(name) == [t |-> "BaseTool", v |-> <<name>>]

\* task.find_tool(name) over the registry reg.
find_tool(reg, name) ==
    IF name.t = "str" /\ Len(name.v) = 1 /\ name.v[1] \in reg
    THEN Tool(name.v[1]) ELSE NoTool

\* The methods every registered tool has.
ToolMethods == {"add", "ping"}

\* getattr(tool, method): the exception it raises, "" for none.
GetAttr(method) ==
    IF method.t # "str" THEN "TypeError"
    ELSE IF Len(method.v) = 1 /\ method.v[1] \in ToolMethods THEN ""
    ELSE "AttributeError"

\* Whether the schema tool.action_schema(method) accepts the instance: add
\* wants a string of numbers, ping declares nothing and accepts any instance.
SchemaAccepts(method, instance) ==
    IF method = Str1("add")
    THEN instance \in {Str1("2,3"), Str1("7")}
    ELSE TRUE

\* What executor.execute(...).decode() gives when the tool method returns.
Observation == Str1("5")

\* ------------------------------------------------------------ the literal

Dict(items) == [exc |-> "", msg |-> "", py |-> "dict", items |-> items]

Raises(exc, msg) == [exc |-> exc, msg |-> msg, py |-> "", items |-> << >>]

\* ast.literal_eval(literal): the value, or the exception it raises.
literal_eval(literal) ==
    CASE literal = "{'type': 'tool', 'name': 'calc', 'method': 'add', 'input': '2,3'}"
            -> Dict([type |-> Str1("tool"), name |-> Str1("calc"),
                     method |-> Str1("add"), input |-> Str1("2,3")])
      [] literal = "{'type': 'tool', 'name': 'calc', 'method': 'add', 'input': 'two'}"
            -> Dict([type |-> Str1("tool"), name |-> Str1("calc"),
                     method |-> Str1("add"), input |-> Str1("two")])
      [] literal = "{'type': 'tool', 'name': 'calc', 'method': 'ping'}"
            -> Dict([type |-> Str1("tool"), name |-> Str1("calc"),
                     method |-> Str1("ping")])
      [] literal = "{'type': 'tool', 'name': 'nosuch', 'method': 'add', 'input': 'two'}"
            -> Dict([type |-> Str1("tool"), name |-> Str1("nosuch"),
                     method |-> Str1("add"), input |-> Str1("two")])
      [] literal = "{'type': 'tool', 'name': 'error', 'method': 'add', 'input': '2,3'}"
            -> Dict([type |-> Str1("tool"), name |-> Str1("error"),
                     method |-> Str1("add"), input |-> Str1("2,3")])
      [] literal = "{'type': 'tool', 'name': 'calc'}"
            -> Dict([type |-> Str1("tool"), name |-> Str1("calc")])
      [] literal = "{'type': 'plugin', 'name': 'calc', 'method': 'add', 'input': '2,3'}"
            -> Dict([type |-> Str1("plugin"), name |-> Str1("calc"),
                     method |-> Str1("add"), input |-> Str1("2,3")])
      [] literal = "{'type': 'tool', 'name': 'calc', 'method': 'ping', 'input': ['2', '3']}"
            -> Dict([type |-> Str1("tool"), name |-> Str1("calc"),
                     method |-> Str1("ping"),
                     input |-> [t |-> "list", v |-> <<"['2', '3']">>]])
      [] literal = "{'type': 'tool', 'name': 'calc', 'method': 'ping', 'input': ''}"
            -> Dict([type |-> Str1("tool"), name |-> Str1("calc"),
                     method |-> Str1("ping"), input |-> Str1("")])
      [] literal = "{not a json}"
            -> Raises("SyntaxError", "invalid syntax. Perhaps you forgot a comma? (<unknown>, line 1)")
      [] literal = "{not-json}"
            -> Raises("ValueError", "malformed node or string")
      [] literal = "{1, 2}"
            -> [exc |-> "", msg |-> "", py |-> "set", items |-> << >>]

\* What ACTION_SCHEMA describes: a mapping with type (tool or middleware),
\* name and method, all strings, and an optional input (str, list or dict).
ConformsToActionSchema(obj) ==
    /\ obj.exc = ""
    /\ obj.py = "dict"
    /\ {"type", "name", "method"} \subseteq DOMAIN obj.items
    /\ DOMAIN obj.items \subseteq {"type", "name", "method", "input"}
    /\ obj.items["type"] \in {Str1("tool"), Str1("middleware")}
    /\ obj.items["name"].t = "str"
    /\ obj.items["method"].t = "str"
    /\ ("input" \in DOMAIN obj.items
            => obj.items["input"].t \in {"str", "list", "dict"})

\* validate(instance=action_object, schema=self.ACTION_SCHEMA.schema): the
\* exception raised, "" for none.  Schema.schema is the mapping ACTION_SCHEMA
\* was built from, keyed by Literal and Optional objects; it holds no JSON
\* Schema keyword (Schema.json_schema would), so jsonschema finds nothing to
\* check in it and accepts every instance.
ValidateAction(obj) == ""

\* action_object[key]: the value, or the exception the subscript raises.
GetItem(obj, key) ==
    IF obj.py # "dict" THEN [exc |-> "TypeError", val |-> None]
    ELSE IF key \notin DOMAIN obj.items THEN [exc |-> "KeyError", val |-> None]
    ELSE [exc |-> "", val |-> obj.items[key]]

\* ------------------------------------------------------------ the initializer

\* The steps of the try block of __init_from_prompt work on a record st: the
\* subtask's fields, and exc/msg, the exception raised so far ("" for none).
\* A step that follows a raised exception is not executed: it leaves st as
\* it is.

\* action_object = ast.literal_eval(action_matches[-1]); validate(...).
ParseAction(literal) ==
    LET obj == literal_eval(literal)
    IN  IF obj.exc # "" THEN obj
        ELSE IF ValidateAction(obj) # ""
             THEN Raises(ValidateAction(obj), "invalid action") ELSE obj

\* if self.action_type is None: self.action_type = action_object["type"]
LoadType(st, obj) ==
    IF st.exc # "" \/ st.action_type # None THEN st
    ELSE LET r == GetItem(obj, "type")
         IN  IF r.exc # "" THEN [st EXCEPT !.exc = r.exc, !.msg = "'type'"]
             ELSE [st EXCEPT !.action_type = r.val]

\* if self.action_name is None: self.action_name = action_object["name"]
LoadName(st, obj) ==
    IF st.exc # "" \/ st.action_name # None THEN st
    ELSE LET r == GetItem(obj, "name")
         IN  IF r.exc # "" THEN [st EXCEPT !.exc = r.exc, !.msg = "'name'"]
             ELSE [st EXCEPT !.action_name = r.val]

\* if self.action_method is None: self.action_method = action_object["method"]
LoadMethod(st, obj) ==
    IF st.exc # "" \/ st.action_method # None THEN st
    ELSE LET r == GetItem(obj, "method")
         IN  IF r.exc # "" THEN [st EXCEPT !.exc = r.exc, !.msg = "'method'"]
             ELSE [st EXCEPT !.action_method = r.val]

\* if self.action_name: self._tool = self.task.find_tool(self.action_name)
LoadTool(st, reg) ==
    IF st.exc = "" /\ Truthy(st.action_name)
    THEN [st EXCEPT !.tool = find_tool(reg, st.action_name)]
    ELSE st

\* if self.action_input is None:
\*     self.action_input = str(action_object["input"]) if "input" in action_object else None
\* str() of a value is the text of the value: a str stays what it is.
LoadInput(st, obj) ==
    IF st.exc # "" \/ st.action_input # None THEN st
    ELSE IF "input" \in DOMAIN obj.items
         THEN [st EXCEPT !.action_input = Str(obj.items["input"].v)]
         ELSE [st EXCEPT !.action_input = None]

\* ValidateInput without its "if self._tool": the input is validated against
\* the schema of the method even when no tool was resolved.
ValidateInputAlways(st) ==
    IF st.exc # "" THEN st
    ELSE IF GetAttr(st.action_method) # ""
         THEN [st EXCEPT !.exc = GetAttr(st.action_method), !.msg = "no such method"]
         ELSE IF SchemaAccepts(st.action_method, st.action_input) THEN st
              ELSE [st EXCEPT !.exc = "ValidationError", !.msg = "instance rejected"]

\* if self._tool: validate(instance=self.action_input,
\*     schema=self._tool.action_schema(getattr(self._tool, self.action_method)))
ValidateInput(st) ==
    IF st.exc # "" \/ st.tool = NoTool THEN st
    ELSE IF GetAttr(st.action_method) # ""
         THEN [st EXCEPT !.exc = GetAttr(st.action_method), !.msg = "no such method"]
         ELSE IF SchemaAccepts(st.action_method, st.action_input) THEN st
              ELSE [st EXCEPT !.exc = "ValidationError", !.msg = "instance rejected"]

\* The diagnostics the except clauses store in action_input.
SyntaxDiagnostic(msg) == Str(<<"syntax error: ", msg>>)

ValidationDiagnostic(msg) == Str(<<"JSON validation error: ", msg>>)

INVALID_ACTION_ERROR_MSG == "invalid action input, try again"

GenericDiagnostic == Str(<<"error: ", INVALID_ACTION_ERROR_MSG>>)

\* HandleException without its last clause (except Exception): an exception
\* that is neither a SyntaxError nor a ValidationError leaves attach.
HandleExceptionNoGeneric(st) ==
    IF st.exc = "" THEN st
    ELSE IF st.exc = "SyntaxError"
         THEN [st EXCEPT !.action_name = Str1("error"),
                         !.action_input = SyntaxDiagnostic(st.msg)]
    ELSE IF st.exc = "ValidationError"
         THEN [st EXCEPT !.action_name = Str1("error"),
                         !.action_input = ValidationDiagnostic(st.msg)]
    ELSE [st EXCEPT !.escaped = TRUE]

\* HandleException without its first clause (except SyntaxError): a syntax
\* error is handled by the last clause, as any other exception.
HandleExceptionNoSyntax(st) ==
    IF st.exc = "" THEN st
    ELSE IF st.exc = "ValidationError"
         THEN [st EXCEPT !.action_name = Str1("error"),
                         !.action_input = ValidationDiagnostic(st.msg)]
    ELSE [st EXCEPT !.action_name = Str1("error"),
                    !.action_input = GenericDiagnostic]

\* The three except clauses: every exception class ends in one of them, so
\* none escapes (escaped stays FALSE).
HandleException(st) ==
    IF st.exc = "" THEN st
    ELSE IF st.exc = "SyntaxError"
         THEN [st EXCEPT !.action_name = Str1("error"),
                         !.action_input = SyntaxDiagnostic(st.msg)]
    ELSE IF st.exc = "ValidationError"
         THEN [st EXCEPT !.action_name = Str1("error"),
                         !.action_input = ValidationDiagnostic(st.msg)]
    ELSE [st EXCEPT !.action_name = Str1("error"),
                    !.action_input = GenericDiagnostic]

\* The try block on the last action match, then the except clauses.
InitFromAction(st, literal, reg) ==
    LET obj == ParseAction(literal)
    IN  HandleException(
          ValidateInput(
            LoadInput(
              LoadTool(
                LoadMethod(
                  LoadName(
                    LoadType([st EXCEPT !.exc = obj.exc, !.msg = obj.msg], obj),
                    obj),
                  obj),
                reg),
              obj)))

\* LoadThought without its "self.thought is None": the last match always wins.
LoadThoughtOverwrite(st, value) ==
    IF Len(thought_matches(value)) > 0
    THEN [st EXCEPT !.thought = Str1(Last(thought_matches(value)))]
    ELSE st

\* if self.thought is None and len(thought_matches) > 0:
\*     self.thought = thought_matches[-1]
LoadThought(st, value) ==
    IF st.thought = None /\ Len(thought_matches(value)) > 0
    THEN [st EXCEPT !.thought = Str1(Last(thought_matches(value)))]
    ELSE st

\* elif self.output is None and len(output_matches) > 0:
\*     self.output = TextOutput(output_matches[-1])
LoadOutput(st, value) ==
    IF st.output = NoOutput /\ Len(output_matches(value)) > 0
    THEN [st EXCEPT !.output = TextOutput(Str(Last(output_matches(value)))),
                    !.writes = st.writes + 1]
    ELSE st

\* __init_from_prompt with "if" for its last "elif": the output pattern is
\* used after an action match too.
init_from_prompt_output_always(st, value, reg) ==
    LoadOutput(IF Len(action_matches(value)) > 0
               THEN InitFromAction(LoadThought(st, value), Last(action_matches(value)), reg)
               ELSE LoadThought(st, value),
               value)

\* __init_from_prompt(value) on the fields st, with the registry reg.
init_from_prompt(st, value, reg) ==
    IF Len(action_matches(value)) > 0
    THEN InitFromAction(LoadThought(st, value), Last(action_matches(value)), reg)
    ELSE LoadOutput(LoadThought(st, value), value)

\* ------------------------------------------------------------ run

\* Dispatch with an unset input taken for an empty one: encode() does not
\* raise and the executor is entered.
DispatchNoneAsEmpty(st, outcome) ==
    IF GetAttr(st.action_method) # ""
    THEN [st EXCEPT !.exc = GetAttr(st.action_method), !.msg = "no such method"]
    ELSE IF outcome = "raises"
    THEN [st EXCEPT !.exc = "ToolError", !.msg = "tool failed",
                    !.invocations = st.invocations + 1]
    ELSE [st EXCEPT !.output = TextOutput(Observation), !.writes = st.writes + 1,
                    !.invocations = st.invocations + 1]

\* self.structure.tool_loader.executor.execute(getattr(self._tool,
\* self.action_method), self.action_input.encode()).decode(): the arguments
\* are evaluated first, and encode() of a value that is no str raises before
\* the executor is entered.  outcome is what the tool method does.
Dispatch(st, outcome) ==
    IF GetAttr(st.action_method) # ""
    THEN [st EXCEPT !.exc = GetAttr(st.action_method), !.msg = "no such method"]
    ELSE IF st.action_input.t # "str"
    THEN [st EXCEPT !.exc = "AttributeError", !.msg = "object has no attribute 'encode'"]
    ELSE IF outcome = "raises"
    THEN [st EXCEPT !.exc = "ToolError", !.msg = "tool failed",
                    !.invocations = st.invocations + 1]
    ELSE [st EXCEPT !.output = TextOutput(Observation), !.writes = st.writes + 1,
                    !.invocations = st.invocations + 1]

\* TryRun without its first test: an "error" action is dispatched like any other.
TryRunNoErrorCheck(st, outcome) ==
    IF st.tool # NoTool
    THEN Dispatch(st, outcome)
    ELSE [st EXCEPT !.output = TextOutput(Str1("tool not found")),
                    !.writes = st.writes + 1]

\* TryRun with a text artifact for an "error" action.
TryRunErrorAsText(st, outcome) ==
    IF st.action_name = Str1("error")
    THEN [st EXCEPT !.output = TextOutput(st.action_input),
                    !.writes = st.writes + 1]
    ELSE IF st.tool # NoTool
    THEN Dispatch(st, outcome)
    ELSE [st EXCEPT !.output = TextOutput(Str1("tool not found")),
                    !.writes = st.writes + 1]

\* TryRun with the "error" test after the tool test: an "error" action with
\* a resolved tool is dispatched.
TryRunToolFirst(st, outcome) ==
    IF st.tool # NoTool
    THEN Dispatch(st, outcome)
    ELSE IF st.action_name = Str1("error")
    THEN [st EXCEPT !.output = ErrorOutput(st.action_input, "", TaskId),
                    !.writes = st.writes + 1]
    ELSE [st EXCEPT !.output = TextOutput(Str1("tool not found")),
                    !.writes = st.writes + 1]

\* The try block of run.
TryRun(st, outcome) ==
    IF st.action_name = Str1("error")
    THEN [st EXCEPT !.output = ErrorOutput(st.action_input, "", TaskId),
                    !.writes = st.writes + 1]
    ELSE IF st.tool # NoTool
    THEN Dispatch(st, outcome)
    ELSE [st EXCEPT !.output = TextOutput(Str1("tool not found")),
                    !.writes = st.writes + 1]

\* run without its except clause: the finally clause returns self.output as
\* the try block left it.
ExceptRunMissing(st) == st

\* except Exception as e: self.output = ErrorOutput(str(e), exception=e, task=self.task)
ExceptRun(st) ==
    IF st.exc = "" THEN st
    ELSE [st EXCEPT !.output = ErrorOutput(Str1(st.msg), st.exc, TaskId),
                    !.writes = st.writes + 1]

\* finally: return self.output
Return(st) == [st EXCEPT !.returned = st.output]

run(st, outcome) == Return(ExceptRun(TryRun(st, outcome)))

\* ------------------------------------------------------------ to_json

\* A key that a JSON object does not have.
Absent == [t |-> "absent", v |-> << >>]

\* to_json(): the object json.dumps writes, key by key; a field that is
\* None or empty gets no key.
to_json(st) ==
    [type   |-> IF Truthy(st.action_type) THEN st.action_type ELSE Absent,
     name   |-> IF Truthy(st.action_name) THEN st.action_name ELSE Absent,
     method |-> IF Truthy(st.action_method) THEN st.action_method ELSE Absent,
     input  |-> IF Truthy(st.action_input) THEN st.action_input ELSE Absent]

\* ------------------------------------------------------------ the links

\* The ids of the subtasks of the owning task.
SubtaskIds == {"s1", "s2", "s3"}

Range(seq) == {seq[i] : i \in 1..Len(seq)}

\* add_child without its second half: the child's parent_ids is left alone.
add_child_one_sided(g, self, child) ==
    IF child \notin Range(g.child_ids[self])
    THEN [g EXCEPT !.child_ids[self] = Append(@, child)] ELSE g

\* self.add_child(child) on the links g = [parent_ids, child_ids].
add_child(g, self, child) ==
    LET g1 == IF child \notin Range(g.child_ids[self])
              THEN [g EXCEPT !.child_ids[self] = Append(@, child)] ELSE g
    IN  IF self \notin Range(g1.parent_ids[child])
        THEN [g1 EXCEPT !.parent_ids[child] = Append(@, self)] ELSE g1

\* add_parent without its membership tests: both ids are appended every time.
add_parent_unchecked(g, self, parent) ==
    [g EXCEPT !.parent_ids[self] = Append(@, parent),
              !.child_ids[parent] = Append(@, self)]

\* self.add_parent(parent) on the links g.
add_parent(g, self, parent) ==
    LET g1 == IF parent \notin Range(g.parent_ids[self])
              THEN [g EXCEPT !.parent_ids[self] = Append(@, parent)] ELSE g
    IN  IF self \notin Range(g1.child_ids[parent])
        THEN [g1 EXCEPT !.child_ids[parent] = Append(@, self)] ELSE g1

\* ------------------------------------------------------------ the state

VARIABLES
    input,            \* self.input.value, as its lines
    constructed,      \* the fields the subtask was constructed with
    parent_task_id,
    thought, action_type, action_name, action_method, action_input,
    _tool, output,
    registry,         \* the tools the owning task has
    pc,               \* "created", "attached" (attach returned), "executed"
    failure,          \* the exception the initializer's try block raised
    escaped,          \* an exception left attach or run
    output_writes,    \* how often self.output was assigned
    invocations,      \* how often the executor was entered
    returned,         \* what run returned
    json,             \* what to_json returned, once it was called
    parent_ids, child_ids,   \* per subtask id
    calls,            \* how many add_child / add_parent calls were made
    last_call         \* the last one, and the links before it

subtask_vars == <<input, constructed, parent_task_id, thought, action_type, action_name,
                  action_method, action_input, _tool, output, registry, pc,
                  failure, escaped, output_writes, invocations, returned, json>>

link_vars == <<parent_ids, child_ids, calls, last_call>>

vars == <<subtask_vars, link_vars>>

\* The fields a ToolSubtask may be constructed with (kw_only, default None).
Presets ==
    { [thought |-> None, action_type |-> None, action_name |-> None,
       action_method |-> None, action_input |-> None],
      [thought |-> Str1("earlier thought"), action_type |-> None, action_name |-> None,
       action_method |-> None, action_input |-> None],
      [thought |-> None, action_type |-> None, action_name |-> Str1("calc"),
       action_method |-> None, action_input |-> None],
      [thought |-> None, action_type |-> Str1("tool"), action_name |-> Str1("calc"),
       action_method |-> Str1("ping"), action_input |-> Str1("7")] }

Links == [parent_ids |-> parent_ids, child_ids |-> child_ids]

NoLinks == [id \in SubtaskIds |-> << >>]

NoCall == [op |-> "", self |-> "", other |-> "",
           before |-> [parent_ids |-> NoLinks, child_ids |-> NoLinks]]

NoJson == [type |-> Absent, name |-> Absent, method |-> Absent, input |-> Absent]

Init ==
    /\ input \in Texts
    /\ registry \in Registries
    /\ constructed \in Presets
    /\ thought = constructed.thought
    /\ action_type = constructed.action_type
    /\ action_name = constructed.action_name
    /\ action_method = constructed.action_method
    /\ action_input = constructed.action_input
    /\ parent_task_id = None
    /\ _tool = NoTool
    /\ output = NoOutput
    /\ pc = "created"
    /\ failure = ""
    /\ escaped = FALSE
    /\ output_writes = 0
    /\ invocations = 0
    /\ returned = NoOutput
    /\ json = [called |-> FALSE, object |-> NoJson]
    /\ parent_ids = NoLinks
    /\ child_ids = NoLinks
    /\ calls = 0
    /\ last_call = NoCall

\* The fields as the record the operators above work on.
Self ==
    [thought |-> thought, action_type |-> action_type, action_name |-> action_name,
     action_method |-> action_method, action_input |-> action_input,
     tool |-> _tool, output |-> output, writes |-> output_writes,
     invocations |-> invocations, returned |-> returned,
     exc |-> "", msg |-> "", escaped |-> FALSE]

Store(s) ==
    /\ thought' = s.thought
    /\ action_type' = s.action_type
    /\ action_name' = s.action_name
    /\ action_method' = s.action_method
    /\ action_input' = s.action_input
    /\ _tool' = s.tool
    /\ output' = s.output
    /\ output_writes' = s.writes
    /\ invocations' = s.invocations
    /\ returned' = s.returned
    /\ escaped' = (escaped \/ s.escaped)

\* attach(parent_task): the ids, then __init_from_prompt(self.input.value).
Attach ==
    /\ pc = "created"
    /\ parent_task_id' = Str1(TaskId)
    /\ \E s \in {init_from_prompt(Self, input, registry)} :
            Store(s) /\ failure' = s.exc
    /\ pc' = "attached"
    /\ UNCHANGED <<input, constructed, registry, json, link_vars>>

\* run(), the tool method returning or raising.
Run(outcome) ==
    /\ pc = "attached"
    /\ \E s \in {run(Self, outcome)} : Store(s)
    /\ pc' = "executed"
    /\ UNCHANGED <<input, constructed, registry, parent_task_id, failure, json, link_vars>>

\* to_json() on an attached subtask, called once.
ToJson ==
    /\ pc # "created"
    /\ ~json.called
    /\ json' = [called |-> TRUE, object |-> to_json(Self)]
    /\ UNCHANGED <<input, constructed, parent_task_id, thought, action_type,
                   action_name, action_method, action_input, _tool, output,
                   registry, pc, failure, escaped, output_writes, invocations,
                   returned, link_vars>>

Next ==
    \/ Attach
    \/ \E outcome \in {"returns", "raises"} : Run(outcome)
    \/ ToJson

Spec == Init /\ [][Next]_vars

\* The most add_child / add_parent calls in a run of the links.
MaxCalls == 3

AddChild(self, child) ==
    /\ calls < MaxCalls
    /\ \E g \in {add_child(Links, self, child)} :
            parent_ids' = g.parent_ids /\ child_ids' = g.child_ids
    /\ calls' = calls + 1
    /\ last_call' = [op |-> "add_child", self |-> self, other |-> child, before |-> Links]
    /\ UNCHANGED subtask_vars

AddParent(self, parent) ==
    /\ calls < MaxCalls
    /\ \E g \in {add_parent(Links, self, parent)} :
            parent_ids' = g.parent_ids /\ child_ids' = g.child_ids
    /\ calls' = calls + 1
    /\ last_call' = [op |-> "add_parent", self |-> self, other |-> parent, before |-> Links]
    /\ UNCHANGED subtask_vars

\* The links alone: one subtask text, any calls.
LinkInit ==
    Init /\ input = << >> /\ registry = {"calc"} /\ thought = None /\ action_name = None

LinkNext ==
    \/ \E a \in SubtaskIds, b \in SubtaskIds : AddChild(a, b)
    \/ \E a \in SubtaskIds, b \in SubtaskIds : AddParent(a, b)

LinkSpec == LinkInit /\ [][LinkNext]_vars

\* ------------------------------------------------------------ the claims

Attached == pc # "created"

Executed == pc = "executed"

HasAction == Len(action_matches(input)) > 0

HasOutput == Len(output_matches(input)) > 0

\* The value the last action match evaluates to (or the exception).
LastAction == literal_eval(Last(action_matches(input)))

IsError == action_name = Str1("error")

\* C1: run never lets an exception reach its caller and returns an artifact,
\* a text or an error artifact and never None, which is self.output: on an
\* "error" action, with and without a resolved tool, and when dispatch raises.
C1_RunReturnsArtifact ==
    Executed =>
        /\ ~escaped
        /\ returned.kind \in {"TextOutput", "ErrorOutput"}
        /\ returned = output

\* run has returned the error artifact made from the exception of the tool.
C1_Witness ==
    /\ Executed
    /\ invocations = 1
    /\ returned = ErrorOutput(Str1("tool failed"), "ToolError", TaskId)

\* C2: over attach and run, output is assigned exactly once.
C2_OutputAssignedOnce ==
    /\ output_writes <= 1
    /\ Executed => output_writes = 1

\* C3: for a text with an Output: segment and no action match, attach and
\* then run give the text artifact of that output text, and no tool is
\* resolved or dispatched.
C3_OutputTextIsResult ==
    (Executed /\ ~HasAction /\ HasOutput) =>
        /\ returned = TextOutput(Str(Last(output_matches(input))))
        /\ _tool = NoTool
        /\ invocations = 0

\* C4 as claimed: each of thought, action_type, action_name, action_method
\* and action_input, once it holds a non-empty value, is changed by no step.
C4_WriteOnce ==
    [][ /\ Truthy(thought) => thought' = thought
        /\ Truthy(action_type) => action_type' = action_type
        /\ Truthy(action_name) => action_name' = action_name
        /\ Truthy(action_method) => action_method' = action_method
        /\ Truthy(action_input) => action_input' = action_input ]_vars

\* The initializer has failed in this step: its except clauses have run.
FailedNow == pc = "created" /\ failure' # ""

\* C4 as amended: thought, action_type and action_method, once non-empty,
\* are changed by no step; action_name and action_input, once non-empty, are
\* changed only by a failure path of the initializer, which stores "error"
\* and the diagnostic in them.
C4_WriteOnceButFailure ==
    [][ /\ Truthy(thought) => thought' = thought
        /\ Truthy(action_type) => action_type' = action_type
        /\ Truthy(action_method) => action_method' = action_method
        /\ Truthy(action_name) =>
              \/ action_name' = action_name
              \/ FailedNow /\ action_name' = Str1("error")
        /\ Truthy(action_input) =>
              \/ action_input' = action_input
              \/ FailedNow /\ action_input'.v[1] \in
                    {"syntax error: ", "JSON validation error: ", "error: "} ]_vars

\* attach has met a Thought: line and kept the thought given at construction.
C4_Witness ==
    /\ Attached
    /\ Len(thought_matches(input)) > 0
    /\ constructed.thought = Str1("earlier thought")
    /\ thought = Str1("earlier thought")

\* C5 as claimed: whenever action_name is "error" the tool reference is
\* unset, and run on an "error" action does not enter the executor.
C5_ErrorHasNoTool ==
    /\ IsError => _tool = NoTool
    /\ (Executed /\ IsError) => invocations = 0

\* C5 as amended: run on an "error" action does not enter the executor and
\* gives the error artifact of action_input, also when a tool is resolved.
C5_ErrorNeverDispatched ==
    (Executed /\ IsError) =>
        /\ invocations = 0
        /\ returned = ErrorOutput(action_input, "", TaskId)

\* run has handled an "error" action that has a resolved tool.
C5_Witness == Executed /\ IsError /\ _tool # NoTool

NoDuplicates(seq) == \A i, j \in 1..Len(seq) : seq[i] = seq[j] => i = j

\* C6: no subtask's parent_ids or child_ids holds the subtask's own id, and
\* neither holds an id twice.
C6_NoSelfLinkNoDuplicate ==
    \A id \in SubtaskIds :
        /\ id \notin Range(parent_ids[id])
        /\ id \notin Range(child_ids[id])
        /\ NoDuplicates(parent_ids[id])
        /\ NoDuplicates(child_ids[id])

\* The parent and the child of the last call.
LastParent == IF last_call.op = "add_child" THEN last_call.self ELSE last_call.other

LastChild == IF last_call.op = "add_child" THEN last_call.other ELSE last_call.self

Count(seq, x) == Cardinality({i \in 1..Len(seq) : seq[i] = x})

\* C7: add_child(p, c) and add_parent(c, p) give the same links from the
\* links before the call, either one applied again changes nothing, and the
\* pair is once on each side.
C7_SymmetricIdempotent ==
    last_call.op # "" =>
        /\ Links = add_child(last_call.before, LastParent, LastChild)
        /\ Links = add_parent(last_call.before, LastChild, LastParent)
        /\ add_child(Links, LastParent, LastChild) = Links
        /\ add_parent(Links, LastChild, LastParent) = Links
        /\ Count(child_ids[LastParent], LastChild) = 1
        /\ Count(parent_ids[LastChild], LastParent) = 1

\* add_parent was called on a pair that an earlier call had linked.
C7_Witness ==
    /\ last_call.op = "add_parent"
    /\ last_call.self # last_call.other
    /\ last_call.self \in Range(last_call.before.child_ids[last_call.other])
    /\ Links = last_call.before

UnparsableActionLines ==
    BareActionLines \cup
        {l \in MatchingActionLines : literal_eval(ActionGroup(l)).exc # ""}

ActionLineAt == {i \in 1..Len(input) : input[i] \in MatchingActionLines \cup BareActionLines}

\* C9 as claimed: when the (last) Action: line of the text carries what is
\* no parsable literal, attach ends with action_name "error" and a syntax
\* diagnostic in action_input.
C9_UnparsableIsSyntaxError ==
    (/\ Attached
     /\ ActionLineAt # {}
     /\ \A i \in ActionLineAt :
           (\A j \in ActionLineAt : j <= i) => input[i] \in UnparsableActionLines) =>
        /\ IsError
        /\ action_input.v[1] = "syntax error: "

\* C9 as amended: when the last match of ACTION_PATTERN (an Action: line
\* with a {...} group) is rejected by the parser with a SyntaxError, attach
\* ends with action_name "error" and the syntax diagnostic; a {...} that
\* parses but is no literal gets the generic diagnostic; with no match at
\* all (as for "Action: not-json") action_name and action_input stay as
\* constructed.
C9_SyntaxErrorOfMatchedLiteral ==
    Attached =>
        /\ (HasAction /\ LastAction.exc = "SyntaxError") =>
              IsError /\ action_input = SyntaxDiagnostic(LastAction.msg)
        /\ (HasAction /\ LastAction.exc = "ValueError") =>
              IsError /\ action_input = GenericDiagnostic
        /\ ~HasAction =>
              /\ failure = ""
              /\ action_name = constructed.action_name
              /\ action_input = constructed.action_input

\* attach has recovered from the SyntaxError of "{not a json}".
C9_Witness ==
    /\ pc = "attached"
    /\ HasAction
    /\ LastAction.exc = "SyntaxError"
    /\ failure = "SyntaxError"
    /\ IsError

\* The name the literal gives the action.
LiteralName == LastAction.items["name"]

\* The action_name after attach when the literal is valid: the one given at
\* construction, else the literal's.
EffectiveName ==
    IF constructed.action_name # None THEN constructed.action_name ELSE LiteralName

\* C10 as claimed: when the last literal is structurally valid and the name
\* of the action resolves to no tool, attach does not fail and does not make
\* the action an "error", and run returns the text artifact "tool not found".
C10_UnknownToolIsText ==
    (/\ Executed
     /\ HasAction
     /\ ConformsToActionSchema(LastAction)
     /\ find_tool(registry, EffectiveName) = NoTool) =>
        /\ failure = ""
        /\ returned = TextOutput(Str1("tool not found"))
        /\ returned.kind # "ErrorOutput"

\* C10 as amended: when the last literal is structurally valid and the name
\* of the action (the one given at construction, else the literal's) is not
\* "error" and resolves to no tool, attach does not fail, whatever the
\* input, and run returns the text artifact "tool not found" without
\* entering the executor.
C10_UnknownToolNotErrorIsText ==
    (/\ Attached
     /\ HasAction
     /\ ConformsToActionSchema(LastAction)
     /\ EffectiveName # Str1("error")
     /\ find_tool(registry, EffectiveName) = NoTool) =>
        /\ failure = ""
        /\ action_name = EffectiveName
        /\ _tool = NoTool
        /\ Executed =>
              /\ returned = TextOutput(Str1("tool not found"))
              /\ invocations = 0

\* run has answered "tool not found" for the literal that names nosuch, with
\* an input that the add schema rejects.
C10_Witness ==
    /\ Executed
    /\ HasAction
    /\ ConformsToActionSchema(LastAction)
    /\ LiteralName = Str1("nosuch")
    /\ constructed.action_name = None
    /\ action_input = Str1("two")
    /\ returned = TextOutput(Str1("tool not found"))

\* C11 as claimed: when the text has a line that begins with Action:, attach
\* does not fill output from an Output: segment of the text.
C11_ActionLineBlocksOutput ==
    (pc = "attached" /\ ActionLineAt # {}) => output = NoOutput

\* C11 as amended: when ACTION_PATTERN matches (a line "Action:" followed by
\* a {...} group), attach does not fill output from an Output: segment,
\* whatever becomes of the literal; when it matches nowhere, as for the line
\* "Action: not-json", an Output: segment of the text fills output.
C11_ActionMatchBlocksOutput ==
    pc = "attached" =>
        /\ HasAction => output = NoOutput /\ output_writes = 0
        /\ (~HasAction /\ HasOutput) =>
              output = TextOutput(Str(Last(output_matches(input))))

\* attach has met an action match and an Output: segment in one text and
\* has left output unset.
C11_Witness ==
    /\ pc = "attached"
    /\ HasAction
    /\ HasOutput
    /\ output = NoOutput

\* C12: when the last literal evaluates to a value that lacks type, name or
\* method, has a non-string value for one of them or a type outside
\* {tool, middleware}, attach ends with action_name "error" and with
\* action_type and action_method as they were given at construction.
C12_InvalidPayloadRejected ==
    (/\ Attached
     /\ HasAction
     /\ LastAction.exc = ""
     /\ ~ConformsToActionSchema(LastAction)) =>
        /\ IsError
        /\ action_type = constructed.action_type
        /\ action_method = constructed.action_method

\* The input of the last literal, Absent when it has no input key.
LiteralInput ==
    IF "input" \in DOMAIN LastAction.items THEN LastAction.items["input"] ELSE Absent

\* C13: for a subtask with nothing given at construction, attached without
\* failure from a literal that conforms to the action schema, the object
\* to_json writes has the type, name, method and input of the literal.
C13_RoundTrip ==
    (/\ json.called
     /\ HasAction
     /\ ConformsToActionSchema(LastAction)
     /\ constructed.action_type = None
     /\ constructed.action_name = None
     /\ constructed.action_method = None
     /\ constructed.action_input = None
     /\ failure = "") =>
        /\ json.object.type = LastAction.items["type"]
        /\ json.object.name = LastAction.items["name"]
        /\ json.object.method = LastAction.items["method"]
        /\ json.object.input = LiteralInput

ThoughtLineAt == {i \in 1..Len(input) : input[i] \in ThoughtLines}

MatchingActionLineAt == {i \in 1..Len(input) : input[i] \in MatchingActionLines}

Max(S) == CHOOSE i \in S : \A j \in S : j <= i

\* The text without its matching Action: lines other than the last one.
RECURSIVE OnlyLastAction(_, _)
OnlyLastAction(value, i) ==
    IF i > Len(value) THEN << >>
    ELSE IF value[i] \in MatchingActionLines /\ i # Max(MatchingActionLineAt)
         THEN OnlyLastAction(value, i + 1)
         ELSE <<value[i]>> \o OnlyLastAction(value, i + 1)

\* The subtask as it was constructed.
Constructed ==
    [thought |-> constructed.thought, action_type |-> constructed.action_type,
     action_name |-> constructed.action_name,
     action_method |-> constructed.action_method,
     action_input |-> constructed.action_input,
     tool |-> NoTool, output |-> NoOutput, writes |-> 0, invocations |-> 0,
     returned |-> NoOutput, exc |-> "", msg |-> "", escaped |-> FALSE]

\* C14: for a text with several Thought: lines, a subtask constructed
\* without a thought holds after attach the text of the last Thought: line;
\* for a text with several matching Action: lines, attach leaves the action
\* fields and the tool as it leaves them for the text without the earlier
\* ones.
C14_LastMatchWins ==
    pc = "attached" =>
        /\ (constructed.thought = None /\ Cardinality(ThoughtLineAt) >= 2) =>
              thought = Str1(ThoughtGroup(input[Max(ThoughtLineAt)]))
        /\ Cardinality(MatchingActionLineAt) >= 2 =>
              \E s \in {init_from_prompt(Constructed, OnlyLastAction(input, 1), registry)} :
                  /\ action_type = s.action_type
                  /\ action_name = s.action_name
                  /\ action_method = s.action_method
                  /\ action_input = s.action_input
                  /\ _tool = s.tool

\* C15: run on an "error" action gives an error artifact, not a text
\* artifact, whose value is action_input and whose task is the owning task;
\* after a failure of the initializer that value is the diagnostic of the
\* failure: syntax, validation or generic.
C15_ErrorArtifactCarriesDiagnostic ==
    (Executed /\ IsError) =>
        /\ returned.kind = "ErrorOutput"
        /\ returned.value = action_input
        /\ returned.task = TaskId
        /\ output = returned
        /\ failure = "SyntaxError" => returned.value = SyntaxDiagnostic(LastAction.msg)
        /\ failure = "ValidationError" =>
              returned.value = ValidationDiagnostic("instance rejected")
        /\ failure \notin {"", "SyntaxError", "ValidationError"} =>
              returned.value = GenericDiagnostic

\* run has given the error artifact of the validation diagnostic for the
\* literal whose input "two" the schema of calc.add rejects; the tool was
\* not invoked.
C15_Witness ==
    /\ Executed
    /\ IsError
    /\ failure = "ValidationError"
    /\ Last(action_matches(input)) =
          "{'type': 'tool', 'name': 'calc', 'method': 'add', 'input': 'two'}"
    /\ _tool = Tool("calc")
    /\ invocations = 0
    /\ returned = ErrorOutput(ValidationDiagnostic("instance rejected"), "", TaskId)

\* C16: after any sequence of add_child and add_parent calls on subtasks
\* that start without links, c is in child_ids of p exactly when p is in
\* parent_ids of c.
C16_LinkReciprocity ==
    \A p, c \in SubtaskIds :
        c \in Range(child_ids[p]) <=> p \in Range(parent_ids[c])

\* add_parent has linked two subtasks on top of the links of an earlier
\* call, and both sides of the new link are there.
C16_Witness ==
    /\ calls >= 2
    /\ last_call.op = "add_parent"
    /\ last_call.self # last_call.other
    /\ last_call.before.child_ids # NoLinks
    /\ last_call.self \notin Range(last_call.before.child_ids[last_call.other])
    /\ last_call.self \in Range(child_ids[last_call.other])
    /\ last_call.other \in Range(parent_ids[last_call.self])

\* C17: when a tool is resolved, action_input is unset after attach and the
\* action is no "error", run does not enter the executor: encode() of the
\* unset input raises inside run, and run returns the error artifact of that
\* exception.
C17_UnsetInputNotDispatched ==
    (Executed /\ _tool # NoTool /\ action_input = None /\ ~IsError) =>
        /\ invocations = 0
        /\ returned.kind = "ErrorOutput"
        /\ returned.exception = "AttributeError"
        /\ returned.task = TaskId

\* run has handled the literal for calc.ping that has no input key: the
\* schema of ping accepted the unset input at attach.
C17_Witness ==
    /\ Executed
    /\ HasAction
    /\ ConformsToActionSchema(LastAction)
    /\ "input" \notin DOMAIN LastAction.items
    /\ failure = ""
    /\ _tool = Tool("calc")
    /\ action_method = Str1("ping")
    /\ action_input = None
    /\ returned.kind = "ErrorOutput"

\* C18: for a literal that conforms to the action schema and is named
\* "error", no name given at construction and attach without failure, run
\* does not enter the executor and returns the error artifact of
\* action_input, also when the registry has a tool named "error" and attach
\* has resolved it.
C18_NamedErrorNeverDispatched ==
    (/\ Executed
     /\ HasAction
     /\ ConformsToActionSchema(LastAction)
     /\ LiteralName = Str1("error")
     /\ constructed.action_name = None
     /\ failure = "") =>
        /\ IsError
        /\ "error" \in registry => _tool = Tool("error")
        /\ invocations = 0
        /\ returned = ErrorOutput(action_input, "", TaskId)

\* run has handled an "error" action whose tool "error" is resolved and
\* whose initializer did not fail.
C18_Witness ==
    /\ Executed
    /\ IsError
    /\ failure = ""
    /\ _tool = Tool("error")
    /\ action_input = Str1("2,3")
    /\ returned.kind = "ErrorOutput"

====
